---- MODULE Spec2Model ----
(***************************************************************************)
(* postgres/string_field.go of go-structured-query: the StringField value, *)
(* its builders and its rendering into an SQL fragment plus arguments.     *)
(*                                                                         *)
(* Go strings are sequences of one-character strings.  Go pointers are     *)
(* addresses into a heap: `bools` holds the cells the *bool fields point   *)
(* to, `strs` the cells the *string field points to; Nil is the nil        *)
(* pointer.  `fields` holds the StringField values of the caller's local   *)
(* variables (slot 1 is f, slot 2 is g); a builder call `g = f.Asc()`      *)
(* reads one slot and assigns another.                                     *)
(***************************************************************************)
EXTENDS Naturals, Sequences, FiniteSets, TLC

VARIABLES
    fields,   \* [Slots -> StringField]: the caller's StringField variables
    bools,    \* heap of bool cells: live address -> BOOLEAN
    strs,     \* heap of string cells: live address -> string
    made,     \* the constructor call that made the field, and the field it returned
    hist,     \* per variable, the Asc/Desc and NullsFirst/NullsLast calls of its chain
    op        \* the last call: its name, inputs and results

vars == <<fields, bools, strs, made, hist, op>>

\* ------------------------------------------------------------------ bounds

\* Longest exclusion list handed to AppendSQLExclude.
MaxExcl == 2

\* ------------------------------------------------------------------ values

Nil == 0

Slots == {1, 2}

\* The text literals of the source, character by character.
QMark == <<"?">>
Quote == <<"\"">>
QuoteDot == <<"\"", ".">>
Dot == <<".">>
SpaceTab == {" ", "\t"}
DescText == <<" ", "D", "E", "S", "C">>
AscText == <<" ", "A", "S", "C">>
NullsFirstText == <<" ", "N", "U", "L", "L", "S", " ", "F", "I", "R", "S", "T">>
NullsLastText == <<" ", "N", "U", "L", "L", "S", " ", "L", "A", "S", "T">>

\* Table is an interface; a table is what its two getters return.  A column's
\* table is not nil: GetAlias on a nil Table panics before anything is written.
Table(alias, name) == [alias |-> alias, name |-> name]

Table_GetAlias(t) == t.alias

Table_GetName(t) == t.name

\* type StringField struct
StringField(value, alias, table, name, descending, nullsfirst) ==
    [value |-> value, alias |-> alias, table |-> table, name |-> name,
     descending |-> descending, nullsfirst |-> nullsfirst]

\* The zero Table of a literal field is never read by the code.
NoTable == Table(<<>>, <<>>)

\* A []string: nil and empty are different values of equal length.
Slice(isNil, elems) == [isNil |-> isNil, elems |-> elems]

NilSlice == Slice(TRUE, <<>>)

\* new(T): an address no live cell has.
NewAddr(heap) == CHOOSE a \in 1..(Cardinality(DOMAIN heap) + 1) : a \notin DOMAIN heap

\* heap with cell a set to v.
Store(heap, a, v) == [x \in (DOMAIN heap) \cup {a} |-> IF x = a THEN v ELSE heap[x]]

\* The pointers the StringField variables hold, in the order of the variables.
Pointers(fs) ==
    <<fs[1].descending, fs[1].nullsfirst, fs[2].descending, fs[2].nullsfirst>>

\* The code never compares or prints an address, so only which pointers are
\* equal matters: the live cells are numbered in the order Pointers(fs) first
\* reaches them.
Renamed(fs, a) ==
    IF a = Nil THEN Nil
    ELSE LET ps == Pointers(fs)
             first == CHOOSE i \in 1..Len(ps) :
                          ps[i] = a /\ \A j \in 1..(i - 1) : ps[j] # a
         IN  Cardinality({ps[j] : j \in 1..first} \ {Nil})

\* The garbage collector: the cells no variable points to are freed, the
\* others keep their contents under their new numbers.
Collect(fs, heap) ==
    LET live == {a \in DOMAIN heap : \E i \in 1..Len(Pointers(fs)) : Pointers(fs)[i] = a}
    IN  [fields |-> [s \in DOMAIN fs |->
                        [fs[s] EXCEPT !.descending = Renamed(fs, @),
                                      !.nullsfirst = Renamed(fs, @)]],
         bools |-> [n \in 1..Cardinality(live) |->
                       heap[CHOOSE a \in live : Renamed(fs, a) = n]]]

\* An interface{} value holding a Go string.
StringOperand(s) == [kind |-> "string", str |-> s]

\* ---------------------------------------------------------------- rendering

\* Mutant: only the space is looked for, the tab is forgotten.
ContainsSpaceOnly(s, chars) == \E i \in 1..Len(s) : s[i] = " "

\* strings.ContainsAny(s, chars)
ContainsAny(s, chars) == \E i \in 1..Len(s) : s[i] \in chars

\* for i := range excludedTableQualifiers { if tableQualifier == ... { tableQualifier = ""; break } }
RECURSIVE ExcludeLoop(_, _, _)
ExcludeLoop(tableQualifier, excluded, i) ==
    IF i > Len(excluded.elems) THEN tableQualifier
    ELSE IF tableQualifier = excluded.elems[i] THEN <<>>
    ELSE ExcludeLoop(tableQualifier, excluded, i + 1)

\* Mutant: the table's name takes precedence over its alias.
TableQualifierNameFirst(f) ==
    IF Table_GetName(f.table) = <<>> THEN Table_GetAlias(f.table)
    ELSE Table_GetName(f.table)

\* tableQualifier := f.table.GetAlias(); if tableQualifier == "" { ... GetName() }
TableQualifier(f) ==
    IF Table_GetAlias(f.table) = <<>> THEN Table_GetName(f.table)
    ELSE Table_GetAlias(f.table)

\* The writes of the qualifier branch.
WriteQualifier(buf, tableQualifier) ==
    IF tableQualifier # <<>>
    THEN IF ContainsAny(tableQualifier, SpaceTab)
         THEN buf \o Quote \o tableQualifier \o QuoteDot
         ELSE buf \o tableQualifier \o Dot
    ELSE buf

\* The writes of the column name.
WriteName(buf, name) ==
    IF ContainsAny(name, SpaceTab)
    THEN buf \o Quote \o name \o Quote
    ELSE buf \o name

\* if f.descending != nil { ... }
WriteDirection(buf, f, bh) ==
    IF f.descending # Nil
    THEN IF bh[f.descending] THEN buf \o DescText ELSE buf \o AscText
    ELSE buf

\* if f.nullsfirst != nil { ... }
WriteNulls(buf, f, bh) ==
    IF f.nullsfirst # Nil
    THEN IF bh[f.nullsfirst] THEN buf \o NullsFirstText ELSE buf \o NullsLastText
    ELSE buf

\* Mutant: the literal branch writes the placeholder and forgets the value.
AppendSQLExcludeDropsValue(f, bh, sh, buf, args, excluded) ==
    LET base == IF f.value # Nil
                THEN [buf |-> buf \o QMark, args |-> args]
                ELSE [buf |-> WriteName(
                                 WriteQualifier(buf, ExcludeLoop(TableQualifier(f), excluded, 1)),
                                 f.name),
                      args |-> args]
    IN  [buf |-> WriteNulls(WriteDirection(base.buf, f, bh), f, bh), args |-> base.args]

\* func (f StringField) AppendSQLExclude(buf, args, excludedTableQualifiers):
\* the buffer and the argument list after the call.
AppendSQLExclude(f, bh, sh, buf, args, excluded) ==
    LET base == IF f.value # Nil
                THEN [buf |-> buf \o QMark, args |-> Append(args, StringOperand(sh[f.value]))]
                ELSE [buf |-> WriteName(
                                 WriteQualifier(buf, ExcludeLoop(TableQualifier(f), excluded, 1)),
                                 f.name),
                      args |-> args]
    IN  [buf |-> WriteNulls(WriteDirection(base.buf, f, bh), f, bh), args |-> base.args]

\* Mutant: args is passed by value, so String() hands over the nil list it declared.
StringDropsArgs(f, bh, sh) ==
    [buf |-> AppendSQLExclude(f, bh, sh, <<>>, <<>>, NilSlice).buf, args |-> <<>>]

\* func (f StringField) String(): the fragment and the arguments handed to
\* QuestionInterpolate.
StringField_String(f, bh, sh) == AppendSQLExclude(f, bh, sh, <<>>, <<>>, NilSlice)

\* ------------------------------------------------------------- constructors

\* func NewStringField(name string, table Table) StringField
NewStringField(name, table) == StringField(Nil, <<>>, table, name, Nil, Nil)

\* func String(s string) StringField: the field and the string heap holding &s.
String(s, sh) ==
    LET a == NewAddr(sh)
    IN  [f |-> StringField(a, <<>>, NoTable, <<>>, Nil, Nil), strs |-> Store(sh, a, s)]

\* func NewEnumField(name string, table Table) EnumField
NewEnumField(name, table) == NewStringField(name, table)

\* ------------------------------------------------------------- decorators
\* Each returns the new field and the bool heap after the call.

\* func (f StringField) As(alias string) StringField
As(f, bh, alias) == [f |-> [f EXCEPT !.alias = alias], bools |-> bh]

\* Mutant: Asc stores true, as Desc does.
AscAsDesc(f, bh) ==
    LET desc == NewAddr(bh)
    IN  [f |-> [f EXCEPT !.descending = desc], bools |-> Store(bh, desc, TRUE)]

\* func (f StringField) Asc() StringField
Asc(f, bh) ==
    LET desc == NewAddr(bh)
    IN  [f |-> [f EXCEPT !.descending = desc], bools |-> Store(bh, desc, FALSE)]

\* Mutant: Desc reuses the cell the receiver already points to instead of a
\* fresh local, writing through the shared pointer.
DescInPlace(f, bh) ==
    IF f.descending # Nil
    THEN [f |-> f, bools |-> Store(bh, f.descending, TRUE)]
    ELSE LET desc == NewAddr(bh)
         IN  [f |-> [f EXCEPT !.descending = desc], bools |-> Store(bh, desc, TRUE)]

\* func (f StringField) Desc() StringField
Desc(f, bh) ==
    LET desc == NewAddr(bh)
    IN  [f |-> [f EXCEPT !.descending = desc], bools |-> Store(bh, desc, TRUE)]

\* func (f StringField) NullsFirst() StringField
NullsFirst(f, bh) ==
    LET nullsfirst == NewAddr(bh)
    IN  [f |-> [f EXCEPT !.nullsfirst = nullsfirst], bools |-> Store(bh, nullsfirst, TRUE)]

\* func (f StringField) NullsLast() StringField
NullsLast(f, bh) ==
    LET nullsfirst == NewAddr(bh)
    IN  [f |-> [f EXCEPT !.nullsfirst = nullsfirst], bools |-> Store(bh, nullsfirst, FALSE)]

\* func (f StringField) GetAlias() string
GetAlias(f) == f.alias

\* func (f StringField) GetName() string
GetName(f) == f.name

\* ------------------------------------------------------------- operands
\* The other interface{} values: the dynamic type and the value itself.

FieldOperand(f) == [kind |-> "StringField", field |-> f]

RowValueOperand(row) == [kind |-> "RowValue", row |-> row]

QueryOperand(q) == [kind |-> "Query", query |-> q]

SliceOperand(elems) == [kind |-> "slice", elems |-> elems]

IntOperand(n) == [kind |-> "int", int |-> n]

NilOperand == [kind |-> "nil"]

\* v.NestThis(): Query is an interface, and what its method returns is known
\* here only as the result of that call on v, itself a Query.
NestThis(v) == [kind |-> "Query", nestThisOf |-> v]

\* CustomPredicate{Format: ..., Values: ...}
CustomPredicate(Format, Values) ==
    [kind |-> "CustomPredicate", Format |-> Format, Values |-> Values]

\* FieldAssignment{Field: ..., Value: ...}
FieldAssignment(Field, Value) ==
    [kind |-> "FieldAssignment", Field |-> Field, Value |-> Value]

\* ------------------------------------------------------- predicate builders

\* func (f StringField) Set(value interface{}) FieldAssignment
Set(f, value) == FieldAssignment(FieldOperand(f), value)

\* func (f StringField) SetString(s string) FieldAssignment
SetString(f, s) == FieldAssignment(FieldOperand(f), StringOperand(s))

\* func (f StringField) IsNull() Predicate: "? IS NULL"
IsNull(f) ==
    CustomPredicate(<<"?", " ", "I", "S", " ", "N", "U", "L", "L">>,
                    <<FieldOperand(f)>>)

\* Mutant: IsNotNull passes the field twice for its one placeholder.
IsNotNullTwoOperands(f) ==
    CustomPredicate(<<"?", " ", "I", "S", " ", "N", "O", "T", " ", "N", "U", "L", "L">>,
                    <<FieldOperand(f), FieldOperand(f)>>)

\* func (f StringField) IsNotNull() Predicate: "? IS NOT NULL"
IsNotNull(f) ==
    CustomPredicate(<<"?", " ", "I", "S", " ", "N", "O", "T", " ", "N", "U", "L", "L">>,
                    <<FieldOperand(f)>>)

\* func (f StringField) Eq(field StringField) Predicate: "? = ?"
Eq(f, field) ==
    CustomPredicate(<<"?", " ", "=", " ", "?">>,
                    <<FieldOperand(f), FieldOperand(field)>>)

\* func (f StringField) Ne(field StringField) Predicate: "? <> ?"
Ne(f, field) ==
    CustomPredicate(<<"?", " ", "<", ">", " ", "?">>,
                    <<FieldOperand(f), FieldOperand(field)>>)

\* func (f StringField) Gt(field StringField) Predicate: "? > ?"
Gt(f, field) ==
    CustomPredicate(<<"?", " ", ">", " ", "?">>,
                    <<FieldOperand(f), FieldOperand(field)>>)

\* func (f StringField) Ge(field StringField) Predicate: "? >= ?"
Ge(f, field) ==
    CustomPredicate(<<"?", " ", ">", "=", " ", "?">>,
                    <<FieldOperand(f), FieldOperand(field)>>)

\* func (f StringField) Lt(field StringField) Predicate: "? < ?"
Lt(f, field) ==
    CustomPredicate(<<"?", " ", "<", " ", "?">>,
                    <<FieldOperand(f), FieldOperand(field)>>)

\* func (f StringField) Le(field StringField) Predicate: "? <= ?"
Le(f, field) ==
    CustomPredicate(<<"?", " ", "<", "=", " ", "?">>,
                    <<FieldOperand(f), FieldOperand(field)>>)

\* func (f StringField) EqString(s string) Predicate: "? = ?"
EqString(f, s) ==
    CustomPredicate(<<"?", " ", "=", " ", "?">>,
                    <<FieldOperand(f), StringOperand(s)>>)

\* func (f StringField) NeString(s string) Predicate: "? <> ?"
NeString(f, s) ==
    CustomPredicate(<<"?", " ", "<", ">", " ", "?">>,
                    <<FieldOperand(f), StringOperand(s)>>)

\* func (f StringField) GtString(s string) Predicate: "? > ?"
GtString(f, s) ==
    CustomPredicate(<<"?", " ", ">", " ", "?">>,
                    <<FieldOperand(f), StringOperand(s)>>)

\* func (f StringField) GeString(s string) Predicate: "? >= ?"
GeString(f, s) ==
    CustomPredicate(<<"?", " ", ">", "=", " ", "?">>,
                    <<FieldOperand(f), StringOperand(s)>>)

\* func (f StringField) LtString(s string) Predicate: "? < ?"
LtString(f, s) ==
    CustomPredicate(<<"?", " ", "<", " ", "?">>,
                    <<FieldOperand(f), StringOperand(s)>>)

\* Mutant: LeString carries LtString's template.
LeStringAsLt(f, s) ==
    CustomPredicate(<<"?", " ", "<", " ", "?">>,
                    <<FieldOperand(f), StringOperand(s)>>)

\* func (f StringField) LeString(s string) Predicate: "? <= ?"
LeString(f, s) ==
    CustomPredicate(<<"?", " ", "<", "=", " ", "?">>,
                    <<FieldOperand(f), StringOperand(s)>>)

\* func (f StringField) LikeString(s string) Predicate: "? LIKE ?"
LikeString(f, s) ==
    CustomPredicate(<<"?", " ", "L", "I", "K", "E", " ", "?">>,
                    <<FieldOperand(f), StringOperand(s)>>)

\* func (f StringField) NotLikeString(s string) Predicate: "? NOT LIKE ?"
NotLikeString(f, s) ==
    CustomPredicate(<<"?", " ", "N", "O", "T", " ", "L", "I", "K", "E", " ", "?">>,
                    <<FieldOperand(f), StringOperand(s)>>)

\* func (f StringField) ILikeString(s string) Predicate: "? ILIKE ?"
ILikeString(f, s) ==
    CustomPredicate(<<"?", " ", "I", "L", "I", "K", "E", " ", "?">>,
                    <<FieldOperand(f), StringOperand(s)>>)

\* func (f StringField) NotILikeString(s string) Predicate: "? NOT ILIKE ?"
NotILikeString(f, s) ==
    CustomPredicate(<<"?", " ", "N", "O", "T", " ", "I", "L", "I", "K", "E", " ", "?">>,
                    <<FieldOperand(f), StringOperand(s)>>)

\* Mutant: the Query case is missing, a query falls to the default and is
\* passed as it is, not in its nested form.
InQueryUnnested(f, v) ==
    CASE v.kind = "RowValue" ->
           CustomPredicate(<<"?", " ", "I", "N", " ", "?">>,
                           <<FieldOperand(f), v>>)
      [] OTHER ->
           CustomPredicate(<<"?", " ", "I", "N", " ", "(", "?", ")">>,
                           <<FieldOperand(f), v>>)

\* Mutant: the default case returns no node for an operand that is neither a
\* row value, a query nor a slice.
InRejectsOthers(f, v) ==
    CASE v.kind = "RowValue" ->
           CustomPredicate(<<"?", " ", "I", "N", " ", "?">>,
                           <<FieldOperand(f), v>>)
      [] v.kind = "Query" ->
           CustomPredicate(<<"?", " ", "I", "N", " ", "(", "?", ")">>,
                           <<FieldOperand(f), NestThis(v)>>)
      [] v.kind = "slice" ->
           CustomPredicate(<<"?", " ", "I", "N", " ", "(", "?", ")">>,
                           <<FieldOperand(f), v>>)
      [] OTHER -> [kind |-> "none"]

\* func (f StringField) In(v interface{}) Predicate: the type switch on v.
In(f, v) ==
    CASE v.kind = "RowValue" ->
           CustomPredicate(<<"?", " ", "I", "N", " ", "?">>,
                           <<FieldOperand(f), v>>)
      [] v.kind = "Query" ->
           CustomPredicate(<<"?", " ", "I", "N", " ", "(", "?", ")">>,
                           <<FieldOperand(f), NestThis(v)>>)
      [] OTHER ->
           CustomPredicate(<<"?", " ", "I", "N", " ", "(", "?", ")">>,
                           <<FieldOperand(f), v>>)


\* ------------------------------------------------------------------ inputs

EmptyHeap == <<>>

Tables ==
    { Table(<<>>, <<"t">>), Table(<<"u">>, <<"t">>), Table(<<>>, <<>>),
      Table(<<"a", " ", "b">>, <<"t">>), Table(<<>>, <<"\t", "t">>),
      Table(<<"q", "?">>, <<"t">>) }

ColNames == { <<"n">>, <<"f", " ", "n">>, <<"n", "\t">>, <<"n", "?">>, <<"\"", " ">> }

StrVals == { <<>>, <<"x">>, <<"?">> }

Aliases == { <<>>, <<"x">> }

ExclQuals == { <<"u">>, <<"t">>, <<"a", " ", "b">> }

ExclLists ==
    {NilSlice} \cup
    { Slice(FALSE, e) : e \in UNION { [1..n -> ExclQuals] : n \in 0..MaxExcl } }

\* What the caller's buffer and argument list hold before a render.
NoOutput == [buf |-> <<>>, args |-> <<>>]

Priors == { NoOutput, [buf |-> <<"(">>, args |-> <<StringOperand(<<"z">>)>>] }

InOperands ==
    { RowValueOperand(<<"x">>), QueryOperand(1), SliceOperand(<<<<"x">>, <<"y">>>>),
      SliceOperand(<<>>), StringOperand(<<"x">>), IntOperand(7), NilOperand }

\* The fields a constructor returns, each with the string heap it leaves.
Made(call, f, sh) == [call |-> call, f |-> f, strs |-> sh]

ColumnCall(name, table) == [ctor |-> "NewStringField", name |-> name, table |-> table]

LiteralCall(s) == [ctor |-> "String", s |-> s]

Constructed ==
    { Made(ColumnCall(n, t), NewStringField(n, t), EmptyHeap) : n \in ColNames, t \in Tables }
    \cup { Made(LiteralCall(v), String(v, EmptyHeap).f, String(v, EmptyHeap).strs) : v \in StrVals }

\* ----------------------------------------------------------------- actions

NoArg == [kind |-> "none"]

NoNode == [kind |-> "none"]

Call(name, recv, dst, arg, excluded, pre, post, node) ==
    [name |-> name, recv |-> recv, dst |-> dst, arg |-> arg, excluded |-> excluded,
     buf0 |-> pre.buf, args0 |-> pre.args, buf |-> post.buf, args |-> post.args,
     node |-> node]

\* No call is in progress and no result is held.
Idle == Call("idle", Nil, Nil, NoArg, NilSlice, NoOutput, NoOutput, NoNode)

\* No decorator was called yet.  dirAgain: an Asc/Desc call followed an
\* earlier one; nullsAgain likewise.
NoHist == [dir |-> "none", nulls |-> "none", dirAgain |-> FALSE, nullsAgain |-> FALSE]

DirCall(h, name) == [h EXCEPT !.dir = name, !.dirAgain = (h.dir # "none")]

NullsCall(h, name) == [h EXCEPT !.nulls = name, !.nullsAgain = (h.nulls # "none")]

\* f := <constructor>(...); g := f
Start(c) ==
    /\ made = [call |-> c.call, f |-> c.f]
    /\ strs = c.strs
    /\ fields = [s \in Slots |-> c.f]
    /\ bools = EmptyHeap
    /\ hist = [s \in Slots |-> NoHist]

Init ==
    /\ \E c \in Constructed : Start(c)
    /\ op = Idle

\* fields[dst] = fields[src].<decorator>(...)
Decorate(name, src, dst, arg, r, h) ==
    /\ op = Idle
    /\ LET c == Collect([fields EXCEPT ![dst] = r.f], r.bools)
       IN  fields' = c.fields /\ bools' = c.bools
    /\ hist' = [hist EXCEPT ![dst] = h]
    /\ op' = Call(name, src, dst, arg, NilSlice, NoOutput, NoOutput, NoNode)
    /\ UNCHANGED <<strs, made>>

CallAs(src, dst, alias) ==
    Decorate("As", src, dst, StringOperand(alias), As(fields[src], bools, alias), hist[src])

CallAsc(src, dst) ==
    Decorate("Asc", src, dst, NoArg, Asc(fields[src], bools),
             DirCall(hist[src], "Asc"))

CallDesc(src, dst) ==
    Decorate("Desc", src, dst, NoArg, Desc(fields[src], bools),
             DirCall(hist[src], "Desc"))

CallNullsFirst(src, dst) ==
    Decorate("NullsFirst", src, dst, NoArg, NullsFirst(fields[src], bools),
             NullsCall(hist[src], "NullsFirst"))

CallNullsLast(src, dst) ==
    Decorate("NullsLast", src, dst, NoArg, NullsLast(fields[src], bools),
             NullsCall(hist[src], "NullsLast"))

\* fields[r].AppendSQLExclude(buf, &args, excluded) on a buffer holding pre.
CallAppendSQLExclude(r, pre, excluded) ==
    /\ op = Idle
    /\ op' = Call("AppendSQLExclude", r, Nil, NoArg, excluded, pre,
                  AppendSQLExclude(fields[r], bools, strs, pre.buf, pre.args, excluded),
                  NoNode)
    /\ UNCHANGED <<fields, bools, strs, made, hist>>

\* fields[r].String()
CallString(r) ==
    /\ op = Idle
    /\ op' = Call("String", r, Nil, NoArg, NilSlice, NoOutput,
                  StringField_String(fields[r], bools, strs), NoNode)
    /\ UNCHANGED <<fields, bools, strs, made, hist>>

\* node = fields[r].<builder>(arg)
Build(name, r, arg, node) ==
    /\ op = Idle
    /\ op' = Call(name, r, Nil, arg, NilSlice, NoOutput, NoOutput, node)
    /\ UNCHANGED <<fields, bools, strs, made, hist>>

CallSet(r, v) == Build("Set", r, v, Set(fields[r], v))

CallSetString(r, s) == Build("SetString", r, StringOperand(s), SetString(fields[r], s))

CallIsNull(r) == Build("IsNull", r, NoArg, IsNull(fields[r]))

CallIsNotNull(r) == Build("IsNotNull", r, NoArg, IsNotNull(fields[r]))

CallIn(r, v) == Build("In", r, v, In(fields[r], v))

CallEq(r, a) == Build("Eq", r, FieldOperand(fields[a]), Eq(fields[r], fields[a]))

CallNe(r, a) == Build("Ne", r, FieldOperand(fields[a]), Ne(fields[r], fields[a]))

CallGt(r, a) == Build("Gt", r, FieldOperand(fields[a]), Gt(fields[r], fields[a]))

CallGe(r, a) == Build("Ge", r, FieldOperand(fields[a]), Ge(fields[r], fields[a]))

CallLt(r, a) == Build("Lt", r, FieldOperand(fields[a]), Lt(fields[r], fields[a]))

CallLe(r, a) == Build("Le", r, FieldOperand(fields[a]), Le(fields[r], fields[a]))

CallEqString(r, s) == Build("EqString", r, StringOperand(s), EqString(fields[r], s))

CallNeString(r, s) == Build("NeString", r, StringOperand(s), NeString(fields[r], s))

CallGtString(r, s) == Build("GtString", r, StringOperand(s), GtString(fields[r], s))

CallGeString(r, s) == Build("GeString", r, StringOperand(s), GeString(fields[r], s))

CallLtString(r, s) == Build("LtString", r, StringOperand(s), LtString(fields[r], s))

CallLeString(r, s) == Build("LeString", r, StringOperand(s), LeString(fields[r], s))

CallLikeString(r, s) == Build("LikeString", r, StringOperand(s), LikeString(fields[r], s))

CallNotLikeString(r, s) == Build("NotLikeString", r, StringOperand(s), NotLikeString(fields[r], s))

CallILikeString(r, s) == Build("ILikeString", r, StringOperand(s), ILikeString(fields[r], s))

CallNotILikeString(r, s) == Build("NotILikeString", r, StringOperand(s), NotILikeString(fields[r], s))

\* The caller drops the result of the call and is free to make the next one.
Forget ==
    /\ op # Idle
    /\ op' = Idle
    /\ UNCHANGED <<fields, bools, strs, made, hist>>

Step(S, I) ==
    \/ \E src \in S, dst \in S, alias \in I.aliases : CallAs(src, dst, alias)
    \/ \E src \in S, dst \in S : CallAsc(src, dst)
    \/ \E src \in S, dst \in S : CallDesc(src, dst)
    \/ \E src \in S, dst \in S : CallNullsFirst(src, dst)
    \/ \E src \in S, dst \in S : CallNullsLast(src, dst)
    \/ \E r \in S, pre \in I.priors, excluded \in I.excluded :
          CallAppendSQLExclude(r, pre, excluded)
    \/ \E r \in S : CallString(r)
    \/ \E r \in S, v \in I.operands : CallSet(r, v)
    \/ \E r \in S, s \in I.strs : CallSetString(r, s)
    \/ \E r \in S : CallIsNull(r)
    \/ \E r \in S : CallIsNotNull(r)
    \/ \E r \in S, a \in S : CallEq(r, a)
    \/ \E r \in S, a \in S : CallNe(r, a)
    \/ \E r \in S, a \in S : CallGt(r, a)
    \/ \E r \in S, a \in S : CallGe(r, a)
    \/ \E r \in S, a \in S : CallLt(r, a)
    \/ \E r \in S, a \in S : CallLe(r, a)
    \/ \E r \in S, s \in I.strs : CallEqString(r, s)
    \/ \E r \in S, s \in I.strs : CallNeString(r, s)
    \/ \E r \in S, s \in I.strs : CallGtString(r, s)
    \/ \E r \in S, s \in I.strs : CallGeString(r, s)
    \/ \E r \in S, s \in I.strs : CallLtString(r, s)
    \/ \E r \in S, s \in I.strs : CallLeString(r, s)
    \/ \E r \in S, s \in I.strs : CallLikeString(r, s)
    \/ \E r \in S, s \in I.strs : CallNotLikeString(r, s)
    \/ \E r \in S, s \in I.strs : CallILikeString(r, s)
    \/ \E r \in S, s \in I.strs : CallNotILikeString(r, s)
    \/ \E r \in S, v \in I.operands : CallIn(r, v)
    \/ Forget

\* The inputs of the calls.
Inputs ==
    [aliases |-> Aliases, priors |-> Priors, excluded |-> ExclLists,
     operands |-> InOperands, strs |-> StrVals]

\* One variable f, rebuilt in place: f = f.Asc(), f = f.As(alias), ...
Next == Step({1}, Inputs)

Spec == Init /\ [][Next]_vars

\* Two variables f and g, each built from either: g = f.Asc(), f = g.As(alias), ...
\* with fewer fields and inputs.
ShareConstructed ==
    { c \in Constructed :
        \/ c.call = ColumnCall(<<"f", " ", "n">>, Table(<<"u">>, <<"t">>))
        \/ c.call = LiteralCall(<<"x">>) }

ShareInputs ==
    [aliases |-> {<<"x">>}, priors |-> {NoOutput},
     excluded |-> {NilSlice, Slice(FALSE, <<<<"u">>>>)},
     operands |-> {RowValueOperand(<<"x">>), QueryOperand(1), StringOperand(<<"x">>)},
     strs |-> {<<"x">>}]

InitShare ==
    /\ \E c \in ShareConstructed : Start(c)
    /\ op = Idle

NextShare == Step(Slots, ShareInputs)

SpecShare == InitShare /\ [][NextShare]_vars


\* ------------------------------------------------------------- properties
\* What a property says of a call is read from `op`, the constructor call in
\* `made` and the chain in `hist`, and is stated here without the renderer.

CountQ(s) == Cardinality({i \in 1..Len(s) : s[i] = "?"})

HasBlank(id) == \E i \in 1..Len(id) : id[i] = " " \/ id[i] = "\t"

Quoted(id) == <<"\"">> \o id \o <<"\"">>

Rendered == op.name \in {"AppendSQLExclude", "String"}

RenderedColumn == Rendered /\ made.call.ctor = "NewStringField"

RenderedLiteral == Rendered /\ made.call.ctor = "String"

\* The effective qualifier of the column's table.
Q == IF made.call.table.alias # <<>> THEN made.call.table.alias ELSE made.call.table.name

Listed == \E i \in 1..Len(op.excluded.elems) : op.excluded.elems[i] = Q

\* The text and the arguments the call appended.
AppendedText == SubSeq(op.buf, Len(op.buf0) + 1, Len(op.buf))

AppendedArgs == SubSeq(op.args, Len(op.args0) + 1, Len(op.args))

KeptPrior ==
    /\ Len(op.buf) >= Len(op.buf0) /\ SubSeq(op.buf, 1, Len(op.buf0)) = op.buf0
    /\ Len(op.args) >= Len(op.args0) /\ SubSeq(op.args, 1, Len(op.args0)) = op.args0

DirSuffix(h) ==
    CASE h.dir = "Asc" -> <<" ", "A", "S", "C">>
      [] h.dir = "Desc" -> <<" ", "D", "E", "S", "C">>
      [] OTHER -> <<>>

NullsSuffix(h) ==
    CASE h.nulls = "NullsFirst" -> <<" ", "N", "U", "L", "L", "S", " ", "F", "I", "R", "S", "T">>
      [] h.nulls = "NullsLast" -> <<" ", "N", "U", "L", "L", "S", " ", "L", "A", "S", "T">>
      [] OTHER -> <<>>

Suffixes == DirSuffix(hist[op.recv]) \o NullsSuffix(hist[op.recv])

\* An identifier as written, bare or in double quotes.
Forms(id) == {id, Quoted(id)}

\* C1, as stated: a column whose effective qualifier Q is in the exclusion
\* list renders as the column name alone; one whose Q is not in the list (a
\* nil list has no elements) renders as Q, a dot and the column name; no
\* argument is appended.  Either identifier may be quoted, and the ordering
\* suffixes of the chain follow.
C1_QualifierAsStated ==
    RenderedColumn =>
        /\ KeptPrior /\ AppendedArgs = <<>>
        /\ \E qf \in Forms(Q), nf \in Forms(made.call.name) :
              AppendedText = (IF Listed THEN nf ELSE qf \o <<".">> \o nf) \o Suffixes

\* C1, amended: as stated when Q is not empty; a table with neither alias nor
\* name (Q empty) renders as the column name alone, with no dot, whatever the
\* exclusion list holds.
C1_QualifierSuppression ==
    RenderedColumn =>
        /\ KeptPrior /\ AppendedArgs = <<>>
        /\ \E qf \in Forms(Q), nf \in Forms(made.call.name) :
              AppendedText = (IF Listed \/ Q = <<>> THEN nf ELSE qf \o <<".">> \o nf) \o Suffixes

\* C1 witness: a column rendered with a list that names its qualifier second,
\* after a list element that is not it.
C1_Witness ==
    /\ RenderedColumn /\ Q # <<>>
    /\ Len(op.excluded.elems) = 2
    /\ op.excluded.elems[1] # Q /\ op.excluded.elems[2] = Q
    /\ made.call.table.alias # <<>> /\ made.call.table.name # <<>>

\* C2: rendering the undecorated literal String(v) appends exactly "?" to the
\* buffer and exactly v to the arguments, whatever the exclusion list.
C2_LiteralRender ==
    (RenderedLiteral /\ hist[op.recv] = NoHist) =>
        /\ KeptPrior
        /\ AppendedText = <<"?">>
        /\ AppendedArgs = <<[kind |-> "string", str |-> made.call.s]>>

\* C2 witness: the literal "?" rendered onto a used buffer with a list of
\* qualifiers.
C2_Witness ==
    /\ op.name = "AppendSQLExclude" /\ made.call.ctor = "String"
    /\ hist[op.recv] = NoHist /\ made.call.s = <<"?">>
    /\ op.buf0 # <<>> /\ op.excluded.elems # <<>>

\* C3: after any chain of As, Asc, Desc, NullsFirst and NullsLast calls the
\* field renders as its base rendering (that of the constructed field), then
\* the suffix of the last Asc/Desc call, then the suffix of the last
\* NullsFirst/NullsLast call; the arguments are those of the base rendering.
C3_SuffixComposition ==
    Rendered =>
        LET base == AppendSQLExclude(made.f, EmptyHeap, strs, op.buf0, op.args0, op.excluded)
        IN  /\ op.buf = base.buf \o DirSuffix(hist[op.recv]) \o NullsSuffix(hist[op.recv])
            /\ op.args = base.args

\* C3 witness: a render after a chain in which Asc overrode an earlier
\* direction, NullsLast an earlier nulls order, and As set an alias.
C3_Witness ==
    /\ Rendered
    /\ hist[op.recv].dir = "Asc" /\ hist[op.recv].dirAgain
    /\ hist[op.recv].nulls = "NullsLast" /\ hist[op.recv].nullsAgain
    /\ fields[op.recv].alias # <<>>

QualifierForm(q) ==
    IF q = <<>> THEN <<>>
    ELSE IF HasBlank(q) THEN Quoted(q) \o <<".">> ELSE q \o <<".">>

NameForm(n) == IF HasBlank(n) THEN Quoted(n) ELSE n

\* C4: in a column's rendering the qualifier, when written, and the column
\* name are each in double quotes exactly when the identifier holds a space
\* or a tab; the identifier is written verbatim and the dot follows the
\* closing quote.
C4_WhitespaceQuoting ==
    RenderedColumn =>
        \E q \in {<<>>, Q} :
            AppendedText = QualifierForm(q) \o NameForm(made.call.name) \o Suffixes

\* C4 witness: a column whose qualifier and name both hold a blank, rendered
\* with its qualifier.
C4_Witness ==
    /\ RenderedColumn /\ HasBlank(Q) /\ ~Listed /\ HasBlank(made.call.name)
    /\ AppendedText # NameForm(made.call.name) \o Suffixes

\* C9, as stated: the number of "?" in the appended text equals the number
\* of appended arguments, for every field.
C9_PlaceholdersAsStated == Rendered => (KeptPrior /\ CountQ(AppendedText) = Len(AppendedArgs))

\* The "?" characters of the identifiers a column's rendering writes.
IdentifierQMarks ==
    IF made.call.ctor = "String" THEN 0
    ELSE CountQ(made.call.name) + (IF Listed \/ Q = <<>> THEN 0 ELSE CountQ(Q))

\* C9, amended: the number of "?" in the appended text equals the number of
\* appended arguments plus the number of "?" characters in the identifiers
\* written (verbatim) into it; the two counts agree for every literal and
\* for every column whose written identifiers hold no "?".
C9_PlaceholdersMatchArgs ==
    Rendered => (KeptPrior /\ CountQ(AppendedText) = Len(AppendedArgs) + IdentifierQMarks)

\* C9 witness: String() on a decorated literal whose value is "?".
C9_Witness ==
    /\ op.name = "String" /\ made.call.ctor = "String" /\ made.call.s = <<"?">>
    /\ hist[op.recv].dir # "none" /\ Len(op.args) = 1


Receiver == [kind |-> "StringField", field |-> fields[op.recv]]

\* C5: In(v) picks the node by the dynamic kind of v: a row value gives
\* "? IN ?" with operands [f, v]; a query gives "? IN (?)" with operands
\* [f, v.NestThis()], the nested form and not the query; any other operand
\* gives "? IN (?)" with operands [f, v].  The first operand is the receiver.
C5_InDispatch ==
    op.name = "In" =>
        /\ op.node.kind = "CustomPredicate"
        /\ op.node.Values[1] = Receiver
        /\ Len(op.node.Values) = 2
        /\ CASE op.arg.kind = "RowValue" ->
                  /\ op.node.Format = <<"?", " ", "I", "N", " ", "?">>
                  /\ op.node.Values[2] = op.arg
             [] op.arg.kind = "Query" ->
                  /\ op.node.Format = <<"?", " ", "I", "N", " ", "(", "?", ")">>
                  /\ op.node.Values[2] = [kind |-> "Query", nestThisOf |-> op.arg]
                  /\ op.node.Values[2] # op.arg
             [] OTHER ->
                  /\ op.node.Format = <<"?", " ", "I", "N", " ", "(", "?", ")">>
                  /\ op.node.Values[2] = op.arg

\* C5 witness: In was called with a query.
C5_Witness == op.name = "In" /\ op.arg.kind = "Query" /\ op.node.kind = "CustomPredicate"

UnaryBuilders == {"IsNull", "IsNotNull"}

BinaryBuilders ==
    {"Eq", "Ne", "Gt", "Ge", "Lt", "Le",
     "EqString", "NeString", "GtString", "GeString", "LtString", "LeString",
     "LikeString", "NotLikeString", "ILikeString", "NotILikeString", "In"}

\* C6: in every predicate node a builder returns, the number of "?" in the
\* template equals the number of operands: two for the comparisons, their
\* String forms, the LIKE family and In, one for IsNull and IsNotNull; the
\* receiver is the first operand.
C6_PredicateArity ==
    op.name \in UnaryBuilders \cup BinaryBuilders =>
        /\ op.node.kind = "CustomPredicate"
        /\ CountQ(op.node.Format) = Len(op.node.Values)
        /\ Len(op.node.Values) = (IF op.name \in UnaryBuilders THEN 1 ELSE 2)
        /\ op.node.Values[1] = Receiver

\* C6 witness: IsNotNull was called on a decorated field.
C6_Witness ==
    /\ op.name = "IsNotNull" /\ op.node.kind = "CustomPredicate"
    /\ fields[op.recv].descending # Nil

OtherOperand == op.arg.kind \notin {"RowValue", "Query", "slice"}

\* C8, as stated: In with an operand that is neither a row value, a query nor
\* a list returns no predicate node.
C8_InvalidOperandAsStated == (op.name = "In" /\ OtherOperand) => op.node.kind = "none"

\* C8, amended: In with an operand that is neither a row value, a query nor a
\* list surfaces no defect: it returns the node "? IN (?)" with operands
\* [f, v], as for a list.
C8_InvalidOperandAccepted ==
    (op.name = "In" /\ OtherOperand) =>
        op.node = [kind |-> "CustomPredicate",
                   Format |-> <<"?", " ", "I", "N", " ", "(", "?", ")">>,
                   Values |-> <<Receiver, op.arg>>]

\* C8 witness: In was called with a nil operand.
C8_Witness == op.name = "In" /\ op.arg.kind = "nil"

StringComparisons ==
    {"EqString", "NeString", "GtString", "GeString", "LtString", "LeString"}

\* The field-to-field builder a String form belongs to.
FieldForm(name, f, field) ==
    CASE name = "EqString" -> Eq(f, field)
      [] name = "NeString" -> Ne(f, field)
      [] name = "GtString" -> Gt(f, field)
      [] name = "GeString" -> Ge(f, field)
      [] name = "LtString" -> Lt(f, field)
      [] name = "LeString" -> Le(f, field)

Renders(f, bh, sh) ==
    [e \in ShareInputs.excluded |-> AppendSQLExclude(f, bh, sh, <<>>, <<>>, e)]

\* C7: no builder call and no render changes its receiver or any field it
\* was copied from: in every step, every variable the step does not assign
\* renders afterwards as it rendered before, for every exclusion list.
C7_ReceiverUnchanged ==
    [][\A s \in Slots :
          op'.dst # s => Renders(fields'[s], bools', strs') = Renders(fields[s], bools, strs)]_vars

\* C7 witness: g = f.Desc() was called on an f that already had a direction
\* and a nulls order; g shares f's nulls cell and f still renders ascending.
C7_Witness ==
    /\ op.name = "Desc" /\ op.recv = 1 /\ op.dst = 2
    /\ hist[1].dir = "Asc" /\ hist[2].dir = "Desc"
    /\ fields[1].nullsfirst # Nil /\ fields[2].nullsfirst = fields[1].nullsfirst
    /\ fields[1].descending # Nil /\ ~bools[fields[1].descending]

====
